---- MODULE Spec2Model ----
(***************************************************************************)
(* Model of the two Berth Ansible client modules:                          *)
(*   library/berth_exec.py   (exec session client)                         *)
(*   library/berth_stack.py  (stack operation client)                      *)
(* One invocation of one of the two modules is modelled per behaviour.     *)
(* Text is a sequence of code points; Python's None is the empty tuple     *)
(* and a present value v is the one-element tuple <<v>>.                   *)
(***************************************************************************)
EXTENDS Integers, Sequences, FiniteSets, TLC

\* ---------------------------------------------------------------- bounds
\* number of messages of handled types the peer sends before its last one
MaxRecv == 4
\* the module's timeout parameter, in clock units
Timeout == 1

\* ------------------------------------------------------- option encoding
None == <<>>

Some(v) == <<v>>

IsNone(o) == Len(o) = 0

Val(o) == o[1]

\* dict.get(key, default) on a parsed JSON object
Get(d, k, default) == IF k \in DOMAIN d THEN d[k] ELSE default

\* ------------------------------------------------------------------ text
ESC == 27

BEL == 7

\* '/app #'
PROMPT == <<47, 97, 112, 112, 32, 35>>

\* 'exit'
EXIT_TEXT == <<101, 120, 105, 116>>

\* 'exit\n' and command + '\n' are sent as their byte values
NEWLINE == 10

IsParamChar(c) == (c >= 48 /\ c <= 57) \/ c = 59 \/ c = 63

IsLetter(c) == (c >= 65 /\ c <= 90) \/ (c >= 97 /\ c <= 122)

\* str.startswith
StartsWith(text, prefix) ==
    /\ Len(text) >= Len(prefix)
    /\ SubSeq(text, 1, Len(prefix)) = prefix

\* the Python operator "needle in text" on strings
Contains(needle, text) ==
    \E i \in 1..(Len(text) - Len(needle) + 1) :
        SubSeq(text, i, i + Len(needle) - 1) = needle

\* end index of the longest run of [0-9;?] starting at i (i-1 if none)
RECURSIVE ParamRunEnd(_, _)
ParamRunEnd(text, i) ==
    IF i <= Len(text) /\ IsParamChar(text[i])
    THEN ParamRunEnd(text, i + 1)
    ELSE i - 1

\* index of the first BEL at or after i, 0 if there is none
RECURSIVE FirstBel(_, _)
FirstBel(text, i) ==
    IF i > Len(text) THEN 0
    ELSE IF text[i] = BEL THEN i
    ELSE FirstBel(text, i + 1)

\* end index of a match of ANSI_ESCAPE_REGEX starting at i, 0 if no match:
\*   \x1b\[[0-9;?]*[a-zA-Z]  |  \x1b\][^\x07]*\x07
AnsiMatchEnd(text, i) ==
    IF text[i] # ESC \/ i + 1 > Len(text) THEN 0
    ELSE IF text[i + 1] = 91
         THEN LET j == ParamRunEnd(text, i + 2) + 1
              IN  IF j <= Len(text) /\ IsLetter(text[j]) THEN j ELSE 0
    ELSE IF text[i + 1] = 93
         THEN FirstBel(text, i + 2)
    ELSE 0

RECURSIVE StripFrom(_, _)
StripFrom(text, i) ==
    IF i > Len(text) THEN <<>>
    ELSE LET e == AnsiMatchEnd(text, i)
         IN  IF e > 0 THEN StripFrom(text, e + 1)
             ELSE <<text[i]>> \o StripFrom(text, i + 1)

\* variant: every ESC is dropped, whether or not it begins a sequence
strip_ansi_codes_DropEsc(text) ==
    StripFrom(SelectSeq(text, LAMBDA c : c # ESC), 1)

\* ANSI_ESCAPE_REGEX.sub('', text): leftmost non-overlapping matches removed
strip_ansi_codes(text) == StripFrom(text, 1)

\* ---------------------------------------------------------------- base64
PAD == 61

IsB64Char(c) ==
    (c >= 65 /\ c <= 90) \/ (c >= 97 /\ c <= 122) \/ (c >= 48 /\ c <= 57)
        \/ c = 43 \/ c = 47

B64Index(c) ==
    IF c >= 65 /\ c <= 90 THEN c - 65
    ELSE IF c >= 97 /\ c <= 122 THEN c - 97 + 26
    ELSE IF c >= 48 /\ c <= 57 THEN c - 48 + 52
    ELSE IF c = 43 THEN 62
    ELSE 63

\* number of trailing '=' of a payload
RECURSIVE PadCount(_)
PadCount(s) ==
    IF Len(s) > 0 /\ s[Len(s)] = PAD
    THEN 1 + PadCount(SubSeq(s, 1, Len(s) - 1))
    ELSE 0

\* base64.b64decode accepts the payload (otherwise binascii.Error); the
\* payloads of the model carry padding only at their end
B64Valid(s) ==
    /\ Len(s) % 4 = 0
    /\ PadCount(s) <= 2
    /\ \A i \in 1..(Len(s) - PadCount(s)) : IsB64Char(s[i])

\* the three bytes encoded by four digits
QuadBytes(a, b, c, d) ==
    LET n == a * 262144 + b * 4096 + c * 64 + d
    IN  <<n \div 65536, (n \div 256) % 256, n % 256>>

RECURSIVE B64Bytes(_)
B64Bytes(s) ==
    IF Len(s) = 0 THEN <<>>
    ELSE LET q == SubSeq(s, 1, 4)
             v(i) == IF q[i] = PAD THEN 0 ELSE B64Index(q[i])
             pads == PadCount(q)
             three == QuadBytes(v(1), v(2), v(3), v(4))
         IN  SubSeq(three, 1, 3 - pads) \o B64Bytes(SubSeq(s, 5, Len(s)))

b64decode(s) == B64Bytes(s)

\* bytes.decode('utf-8', errors='replace') on payloads whose bytes are
\* ASCII or bytes that can start no UTF-8 sequence
REPLACEMENT == 65533

utf8_decode(bytes) ==
    [i \in 1..Len(bytes) |-> IF bytes[i] < 128 THEN bytes[i] ELSE REPLACEMENT]


\* ------------------------------------------------------ module parameters
\* module.params['command']: 'ls'
COMMAND == <<108, 115>>

\* module.params['stack_name'], ['service_name'], ['container_name']
STACK_NAME == "myapp"

SERVICE_NAME == "web"

CONTAINER_NAME == ""

\* module.params['operation'], ['services'] of the stack module
OPERATION == "up"

SERVICES == <<"web", "db">>

\* ------------------------------------------------------------- wire frames
\* a frame json.loads parsed to the object obj
Json(obj) == [frame |-> "json", data |-> obj]

\* base64 payloads of terminal_output frames
\* '/app # '
P_PROMPT == <<76, 50, 70, 119, 99, 67, 65, 106, 73, 65, 61, 61>>

\* 'ls\r\n'
P_ECHO == <<98, 72, 77, 78, 67, 103, 61, 61>>

\* ESC '[0m' 'ok'
P_REAL == <<71, 49, 115, 119, 98, 87, 57, 114>>

\* 'exit\r\n'
P_EXIT == <<90, 88, 104, 112, 100, 65, 48, 75>>

\* ESC '[0m'
P_ANSI == <<71, 49, 115, 119, 98, 81, 61, 61>>

\* 'b2s': not a multiple of four digits, b64decode raises
P_BAD == <<98, 50, 115>>

\* 'ok'
REAL_TEXT == <<111, 107>>

ExecPayloads == {P_PROMPT, P_ECHO, P_REAL, P_EXIT, P_ANSI, P_BAD}

\* 's1'
SESSION_ID == <<115, 49>>

ExecSuccessFrames == {Json([type |-> "success", session_id |-> SESSION_ID])}

ExecOutputFrames ==
    {Json([type |-> "terminal_output", output |-> p]) : p \in ExecPayloads}

ExecCloseFrames ==
    {Json([type |-> "terminal_close", exit_code |-> c]) : c \in {0, 2}}
        \cup {Json([type |-> "terminal_close"])}

ExecErrorFrames ==
    { Json([type |-> "error", error |-> "boom", context |-> "ctx"]),
      Json([type |-> "error"]) }

\* JSON objects of a type no branch handles, or of no type
OtherFrames == {Json([type |-> "ping"]), Json([data |-> "x"])}

\* the message types execute_command dispatches on
ExecTypes == {"success", "terminal_output", "terminal_close", "error"}

\* str(e) of the exceptions the transport and the decoders raise
WsErrorTexts == {"Connection is already closed."}

OsErrorTexts == {"Connection reset by peer"}

JSON_ERROR == "Expecting value"

B64_ERROR == "Incorrect padding"

\* ------------------------------------------------------------------ state
VARIABLES
    client,         \* which module runs: "exec" or "stack"
    has_websocket,  \* HAS_WEBSOCKET
    pc,             \* position of the invocation
    ws,             \* the WebSocket: "none", "open", "closed"
    connects,       \* calls of websocket.create_connection
    posts,          \* calls of urlopen
    sent,           \* messages sent on the WebSocket, in order
    received,       \* handled-type messages ws.recv() returned, in order
    elapsed,        \* time.time() - start_time, capped above the timeout
    session_id,
    session_ready,
    command_sent,
    output_lines,
    exit_code,
    success,
    operation_id,
    outcome,        \* the exit_json / fail_json call made
    reports,        \* number of exit_json / fail_json calls made
    recv_timeouts,  \* number of WebSocketTimeoutException ws.recv() raised
    strip_arg,      \* the text strip_ansi_codes is called with
    stripped,       \* strip_ansi_codes(text), once computed
    restripped      \* strip_ansi_codes of that result, once computed

\* the state of the strip_ansi_codes calls
strip_vars == <<strip_arg, stripped, restripped>>

vars == <<client, has_websocket, pc, ws, connects, posts, sent, received,
          elapsed, session_id, session_ready, command_sent, output_lines,
          exit_code, success, operation_id, outcome, reports, recv_timeouts,
          strip_vars>>

\* --------------------------------------------------- calls to the module host
NoOutcome ==
    [call |-> "none", msg |-> None, output |-> None, exit_code |-> None,
     failed |-> None, changed |-> None, stdout |-> None,
     operation_id |-> None, message |-> None, details |-> None]

\* module.fail_json(msg=..., [operation_id=...], [output=...])
FailJson(msg, opid, output) ==
    [call |-> "fail_json", msg |-> Some(msg), output |-> output,
     exit_code |-> None, failed |-> None, changed |-> None, stdout |-> None,
     operation_id |-> opid, message |-> None, details |-> None]

\* variant: start_time is taken anew in every iteration of the loop
Advance_SinceLastReceive(d) == d

\* the clock after a blocking call that took d units
Advance(d) == IF elapsed + d > Timeout THEN Timeout + 1 ELSE elapsed + d

\* delays of a receive that returns a frame or raises
Delays == 0..Timeout

\* delays of a receive that ends in WebSocketTimeoutException: it blocked
\* for the socket timeout, which create_connection set to self.timeout, so
\* that more than the timeout has elapsed since start_time when it returns
TimeoutDelays == {Timeout + 1}


\* a call of module.exit_json / module.fail_json: the process exits in it
Report(o) ==
    /\ outcome' = o
    /\ reports' = reports + 1
    /\ pc' = "done"

\* ---------------------------------------------------------------- Init
Init ==
    /\ client \in {"exec", "stack"}
    /\ has_websocket \in BOOLEAN
    /\ pc = "main"
    /\ ws = "none"
    /\ connects = 0
    /\ posts = 0
    /\ sent = <<>>
    /\ received = <<>>
    /\ elapsed = 0
    /\ session_id = None
    /\ session_ready = FALSE
    /\ command_sent = FALSE
    /\ output_lines = <<>>
    /\ exit_code = None
    /\ success = None
    /\ operation_id = None
    /\ outcome = NoOutcome
    /\ reports = 0
    /\ recv_timeouts = 0
    /\ strip_arg = <<>>
    /\ stripped = None
    /\ restripped = None

\* =========================================================== exec client

\* should_skip_output without the test for the echoed exit command
should_skip_output_NoExit(output) ==
    IF ~command_sent
    THEN StartsWith(output, PROMPT)
    ELSE \/ Contains(COMMAND, output)
         \/ StartsWith(output, PROMPT)

\* should_skip_output
should_skip_output(output) ==
    IF ~command_sent
    THEN StartsWith(output, PROMPT)
    ELSE \/ Contains(COMMAND, output)
         \/ StartsWith(output, PROMPT)
         \/ StartsWith(output, EXIT_TEXT)

start_msg ==
    [type |-> "terminal_start", stack_name |-> STACK_NAME,
     service_name |-> SERVICE_NAME, container_name |-> CONTAINER_NAME,
     cols |-> 80, rows |-> 24]

input_msg(sid) ==
    [type |-> "terminal_input", session_id |-> sid,
     input |-> COMMAND \o <<NEWLINE>>]

exit_msg(sid) ==
    [type |-> "terminal_input", session_id |-> sid,
     input |-> EXIT_TEXT \o <<NEWLINE>>]

\* the outer "except Exception" of execute_command: no close, no output
ExecOuterExcept(e) ==
    /\ Report(FailJson(<<"Failed to connect to terminal WebSocket: ", e>>,
                       None, None))
    /\ UNCHANGED ws

\* the inner "except websocket.WebSocketException"
ExecWsExcept(e) ==
    /\ ws' = "closed"
    /\ Report(FailJson(<<"WebSocket error: ", e>>, None, Some(output_lines)))

\* main: the HAS_WEBSOCKET check and the construction of the operator
ExecMain ==
    /\ client = "exec"
    /\ pc = "main"
    /\ IF ~has_websocket
       THEN Report(FailJson(<<"The websocket-client Python module is required">>,
                            None, None))
       ELSE /\ pc' = "connect"
            /\ UNCHANGED <<outcome, reports>>
    /\ UNCHANGED <<strip_vars, recv_timeouts, client, has_websocket,
                   ws, connects, posts, sent, received,
                   elapsed, session_id, session_ready, command_sent,
                   output_lines, exit_code, success, operation_id>>

\* execute_command up to the loop: create_connection, send terminal_start
ExecConnect ==
    /\ client = "exec"
    /\ pc = "connect"
    /\ connects' = connects + 1
    /\ \/ \E e \in OsErrorTexts :
            \* create_connection raises
            /\ ExecOuterExcept(e)
            /\ UNCHANGED <<sent, elapsed>>
       \/ \E e \in WsErrorTexts :
            \* connected, ws.send(start_msg) raises
            /\ ws' = "open"
            /\ Report(FailJson(
                   <<"Failed to connect to terminal WebSocket: ", e>>,
                   None, None))
            /\ UNCHANGED <<sent, elapsed>>
       \/ /\ ws' = "open"
          /\ sent' = Append(sent, start_msg)
          /\ elapsed' = 0
          /\ pc' = "loop"
          /\ UNCHANGED <<outcome, reports>>
    /\ session_ready' = FALSE
    /\ UNCHANGED <<strip_vars, recv_timeouts, client, has_websocket,
                   posts, received, session_id,
                   command_sent, output_lines, exit_code, success,
                   operation_id>>

\* the timeout check failing without the captured output
ExecLoopCheck_NoOutput ==
    /\ client = "exec"
    /\ pc = "loop"
    /\ IF elapsed > Timeout
       THEN /\ ws' = "closed"
            /\ Report(FailJson(<<"Command execution timed out after ",
                                 ToString(Timeout), " seconds">>,
                               None, None))
       ELSE /\ pc' = "recv"
            /\ UNCHANGED <<ws, outcome, reports>>
    /\ UNCHANGED <<strip_vars, recv_timeouts, client, has_websocket,
                   connects, posts, sent, received,
                   elapsed, session_id, session_ready, command_sent,
                   output_lines, exit_code, success, operation_id>>

\* top of the while loop: the overall timeout check
ExecLoopCheck ==
    /\ client = "exec"
    /\ pc = "loop"
    /\ IF elapsed > Timeout
       THEN /\ ws' = "closed"
            /\ Report(FailJson(<<"Command execution timed out after ",
                                 ToString(Timeout), " seconds">>,
                               None, Some(output_lines)))
       ELSE /\ pc' = "recv"
            /\ UNCHANGED <<ws, outcome, reports>>
    /\ UNCHANGED <<strip_vars, recv_timeouts, client, has_websocket,
                   connects, posts, sent, received,
                   elapsed, session_id, session_ready, command_sent,
                   output_lines, exit_code, success, operation_id>>

\* ws.recv() returned, after d units, a message m of a type the client
\* handles
Recv(m, d) ==
    /\ pc = "recv"
    /\ received' = Append(received, m)
    /\ elapsed' = Advance(d)

\* ws.recv() returned, after d units, a frame that is left out of the log:
\* an empty one, one that is no JSON, or one of a type no branch handles
RecvUnlogged(d) ==
    /\ pc = "recv"
    /\ elapsed' = Advance(d)
    /\ UNCHANGED received

\* variant: the transport timeout treated as fatal
ExecRecvTimeout_Fatal ==
    /\ client = "exec"
    /\ pc = "recv"
    /\ \E d \in TimeoutDelays : elapsed' = Advance(d)
    /\ recv_timeouts' = recv_timeouts + 1
    /\ ws' = "closed"
    /\ Report(FailJson(<<"Command execution timed out after ",
                         ToString(Timeout), " seconds">>,
                       None, Some(output_lines)))
    /\ UNCHANGED <<strip_vars, client, has_websocket,
                   connects, posts, sent, received,
                   session_id, session_ready, command_sent, output_lines,
                   exit_code, success, operation_id>>

\* ws.recv() raises WebSocketTimeoutException: continue
ExecRecvTimeout ==
    /\ client = "exec"
    /\ pc = "recv"
    /\ \E d \in TimeoutDelays : elapsed' = Advance(d)
    /\ recv_timeouts' = recv_timeouts + 1
    /\ pc' = "loop"
    /\ UNCHANGED <<strip_vars, client, has_websocket,
                   ws, connects, posts, sent, received,
                   session_id, session_ready, command_sent, output_lines,
                   exit_code, success, operation_id, outcome, reports>>

\* ws.recv() raises another WebSocketException
ExecRecvWsException ==
    /\ client = "exec"
    /\ pc = "recv"
    /\ \E d \in Delays, e \in WsErrorTexts :
         /\ elapsed' = Advance(d)
         /\ ExecWsExcept(e)
    /\ UNCHANGED <<strip_vars, recv_timeouts, client, has_websocket,
                   connects, posts, sent, received,
                   session_id, session_ready, command_sent, output_lines,
                   exit_code, success, operation_id>>

\* ws.recv() raises an exception that is no WebSocketException
ExecRecvException ==
    /\ client = "exec"
    /\ pc = "recv"
    /\ \E d \in Delays, e \in OsErrorTexts :
         /\ elapsed' = Advance(d)
         /\ ExecOuterExcept(e)
    /\ UNCHANGED <<strip_vars, recv_timeouts, client, has_websocket,
                   connects, posts, sent, received,
                   session_id, session_ready, command_sent, output_lines,
                   exit_code, success, operation_id>>

\* "if not message: continue"
ExecHandleEmpty ==
    /\ client = "exec"
    /\ \E d \in Delays : RecvUnlogged(d)
    /\ pc' = "loop"
    /\ UNCHANGED <<strip_vars, recv_timeouts, client, has_websocket,
                   ws, connects, posts, sent,
                   session_id, session_ready, command_sent, output_lines,
                   exit_code, success, operation_id, outcome, reports>>

\* json.loads(message) raises
ExecHandleMalformed ==
    /\ client = "exec"
    /\ \E d \in Delays : RecvUnlogged(d)
    /\ ExecOuterExcept(JSON_ERROR)
    /\ UNCHANGED <<strip_vars, recv_timeouts, client, has_websocket,
                   connects, posts, sent,
                   session_id, session_ready, command_sent, output_lines,
                   exit_code, success, operation_id>>


\* variant: 'exit' is sent before the command
ExecHandleSuccess_ExitFirst ==
    /\ client = "exec"
    /\ Len(received) < MaxRecv
    /\ \E m \in ExecSuccessFrames, d \in Delays :
         /\ Recv(m, d)
         /\ session_id' = Get(m.data, "session_id", None)
         /\ session_ready' = TRUE
         /\ \/ \E e \in WsErrorTexts :
                 /\ ExecWsExcept(e)
                 /\ UNCHANGED <<sent, command_sent>>
            \/ \E e \in WsErrorTexts :
                 /\ sent' = Append(sent, exit_msg(session_id'))
                 /\ command_sent' = TRUE
                 /\ ExecWsExcept(e)
            \/ /\ sent' = sent \o <<exit_msg(session_id'),
                                    input_msg(session_id')>>
               /\ command_sent' = TRUE
               /\ pc' = "loop"
               /\ UNCHANGED <<ws, outcome, reports>>
    /\ UNCHANGED <<strip_vars, recv_timeouts, client, has_websocket,
                   connects, posts, output_lines,
                   exit_code, success, operation_id>>

\* msg_type == 'success': record the session, send the command, then 'exit'
ExecHandleSuccess ==
    /\ client = "exec"
    /\ Len(received) < MaxRecv
    /\ \E m \in ExecSuccessFrames, d \in Delays :
         /\ Recv(m, d)
         /\ session_id' = Get(m.data, "session_id", None)
         /\ session_ready' = TRUE
         /\ \/ \E e \in WsErrorTexts :
                 \* ws.send(input_msg) raises
                 /\ ExecWsExcept(e)
                 /\ UNCHANGED <<sent, command_sent>>
            \/ \E e \in WsErrorTexts :
                 \* ws.send(exit_msg) raises
                 /\ sent' = Append(sent, input_msg(session_id'))
                 /\ command_sent' = TRUE
                 /\ ExecWsExcept(e)
            \/ /\ sent' = sent \o <<input_msg(session_id'),
                                    exit_msg(session_id')>>
               /\ command_sent' = TRUE
               /\ pc' = "loop"
               /\ UNCHANGED <<ws, outcome, reports>>
    /\ UNCHANGED <<strip_vars, recv_timeouts, client, has_websocket,
                   connects, posts, output_lines,
                   exit_code, success, operation_id>>

\* the text a terminal_output payload is cleaned to
Cleaned(output_bytes) == strip_ansi_codes(utf8_decode(b64decode(output_bytes)))

\* msg_type == 'terminal_output'
ExecHandleTerminalOutput ==
    /\ client = "exec"
    /\ Len(received) < MaxRecv
    /\ \E m \in ExecOutputFrames, d \in Delays :
         /\ Recv(m, d)
         /\ LET output_bytes == Get(m.data, "output", <<>>)
            IN  IF session_ready /\ output_bytes # <<>>
                THEN IF ~B64Valid(output_bytes)
                     THEN /\ ExecOuterExcept(B64_ERROR)
                          /\ UNCHANGED output_lines
                     ELSE /\ output_lines' =
                               IF /\ Cleaned(output_bytes) # <<>>
                                  /\ ~should_skip_output(Cleaned(output_bytes))
                               THEN Append(output_lines, Cleaned(output_bytes))
                               ELSE output_lines
                          /\ pc' = "loop"
                          /\ UNCHANGED <<ws, outcome, reports>>
                ELSE /\ pc' = "loop"
                     /\ UNCHANGED <<ws, outcome, reports, output_lines>>
    /\ UNCHANGED <<strip_vars, recv_timeouts, client, has_websocket,
                   connects, posts, sent, session_id,
                   session_ready, command_sent, exit_code, success,
                   operation_id>>

\* msg_type == 'terminal_close': record the exit code, close, return
ExecHandleTerminalClose ==
    /\ client = "exec"
    /\ Len(received) <= MaxRecv
    /\ \E m \in ExecCloseFrames, d \in Delays :
         /\ Recv(m, d)
         /\ exit_code' = Some(Get(m.data, "exit_code", 0))
    /\ ws' = "closed"
    /\ pc' = "returned"
    /\ UNCHANGED <<strip_vars, recv_timeouts, client, has_websocket,
                   connects, posts, sent, session_id,
                   session_ready, command_sent, output_lines, success,
                   operation_id, outcome, reports>>

\* full_error built from a key the error message does not carry
full_error_WrongKey(data) ==
    IF Get(data, "context", "") # ""
    THEN <<Get(data, "message", "Unknown error"), ": ",
           Get(data, "context", "")>>
    ELSE <<Get(data, "message", "Unknown error")>>

\* full_error = f"{error_msg}: {context}" if context else error_msg
full_error(data) ==
    IF Get(data, "context", "") # ""
    THEN <<Get(data, "error", "Unknown error"), ": ", Get(data, "context", "")>>
    ELSE <<Get(data, "error", "Unknown error")>>

\* msg_type == 'error': close and fail with the output captured so far
ExecHandleError ==
    /\ client = "exec"
    /\ Len(received) <= MaxRecv
    /\ \E m \in ExecErrorFrames, d \in Delays :
         /\ Recv(m, d)
         /\ Report(FailJson(<<"Terminal error: ">> \o full_error(m.data),
                            None, Some(output_lines)))
    /\ ws' = "closed"
    /\ UNCHANGED <<strip_vars, recv_timeouts, client, has_websocket,
                   connects, posts, sent, session_id,
                   session_ready, command_sent, output_lines, exit_code,
                   success, operation_id>>

\* a JSON object of any other type: no branch is taken
ExecHandleOther ==
    /\ client = "exec"
    /\ \E m \in OtherFrames, d \in Delays :
         /\ Get(m.data, "type", "") \notin ExecTypes
         /\ RecvUnlogged(d)
    /\ pc' = "loop"
    /\ UNCHANGED <<strip_vars, recv_timeouts, client, has_websocket,
                   ws, connects, posts, sent,
                   session_id, session_ready, command_sent, output_lines,
                   exit_code, success, operation_id, outcome, reports>>

\* ''.join(lines)
RECURSIVE Join(_)
Join(lines) == IF lines = <<>> THEN <<>> ELSE Head(lines) \o Join(Tail(lines))

\* execute() with failed computed from the wrong comparison
ExecResult_FailedOnZero ==
    [changed |-> FALSE,
     exit_code |-> IF ~IsNone(exit_code) THEN Val(exit_code) ELSE 0,
     stdout |-> Join(output_lines),
     output |-> output_lines,
     failed |-> IF ~IsNone(exit_code) THEN Val(exit_code) = 0 ELSE FALSE]

\* the dictionary execute() returns
ExecResult ==
    [changed |-> FALSE,
     exit_code |-> IF ~IsNone(exit_code) THEN Val(exit_code) ELSE 0,
     stdout |-> Join(output_lines),
     output |-> output_lines,
     failed |-> IF ~IsNone(exit_code) THEN Val(exit_code) # 0 ELSE FALSE]

\* execute() after execute_command returned, and the end of main:
\* fail_json(**result) if result['failed'] else exit_json(**result)
ExecReturn ==
    /\ client = "exec"
    /\ pc = "returned"
    /\ Report([call |-> IF ExecResult.failed THEN "fail_json" ELSE "exit_json",
               msg |-> None,
               output |-> Some(ExecResult.output),
               exit_code |-> Some(ExecResult.exit_code),
               failed |-> Some(ExecResult.failed),
               changed |-> Some(ExecResult.changed),
               stdout |-> Some(ExecResult.stdout),
               operation_id |-> None,
               message |-> None,
               details |-> None])
    /\ UNCHANGED <<strip_vars, recv_timeouts, client, has_websocket,
                   ws, connects, posts, sent, received,
                   elapsed, session_id, session_ready, command_sent,
                   output_lines, exit_code, success, operation_id>>

ExecNext ==
    \/ ExecMain
    \/ ExecConnect
    \/ ExecLoopCheck
    \/ ExecRecvTimeout
    \/ ExecHandleEmpty
    \/ ExecHandleMalformed
    \/ ExecRecvWsException
    \/ ExecRecvException
    \/ ExecHandleSuccess
    \/ ExecHandleTerminalOutput
    \/ ExecHandleTerminalClose
    \/ ExecHandleError
    \/ ExecHandleOther
    \/ ExecReturn


\* ========================================================== stack client

\* 'a\n', 'e\n\n', 'b', 'T'
DATA_A == <<97, 10>>

DATA_E == <<101, 10, 10>>

DATA_B == <<98>>

TS_T == <<84>>

\* 'boom'
DATA_BOOM == <<98, 111, 111, 109>>

\* 'Unknown error'
UNKNOWN_ERROR ==
    <<85, 110, 107, 110, 111, 119, 110, 32, 101, 114, 114, 111, 114>>

StackDataFrames ==
    { Json([type |-> "stdout", data |-> DATA_A]),
      Json([type |-> "stderr", data |-> DATA_E]),
      Json([type |-> "stdout"]),
      Json([type |-> "progress", data |-> DATA_B, timestamp |-> TS_T]),
      Json([type |-> "progress", data |-> DATA_B]) }

StackCompleteFrames ==
    {Json([type |-> "complete", success |-> b, exitCode |-> c]) :
        b \in BOOLEAN, c \in {0, 3}}
      \cup {Json([type |-> "complete", success |-> b]) : b \in BOOLEAN}
      \cup {Json([type |-> "complete", exitCode |-> c]) : c \in {0, 3}}
      \cup {Json([type |-> "complete"])}

StackErrorFrames ==
    {Json([type |-> "error", data |-> DATA_BOOM]), Json([type |-> "error"])}

\* the message types stream_operation dispatches on
StackTypes == {"stdout", "stderr", "progress", "complete", "error"}

\* the operationId of the POST response: a string, '' or absent (None)
OperationIds == {Some("op1"), Some(""), None}

\* str.rstrip('\n')
RECURSIVE rstrip_newline(_)
rstrip_newline(text) ==
    IF Len(text) > 0 /\ text[Len(text)] = NEWLINE
    THEN rstrip_newline(SubSeq(text, 1, Len(text) - 1))
    ELSE text

\* the progress line without its timestamp
progress_line_NoTimestamp(timestamp, data) == data

\* f"[{timestamp}] {data}"
progress_line(timestamp, data) == <<91>> \o timestamp \o <<93, 32>> \o data

\* start_operation without the check of the operation id
HasOperationId_Unchecked(id) == TRUE

\* the negation of "if not self.operation_id"
HasOperationId(id) == ~IsNone(id) /\ Val(id) # ""

\* main: the HAS_WEBSOCKET check and the construction of the operator
StackMain ==
    /\ client = "stack"
    /\ pc = "main"
    /\ IF ~has_websocket
       THEN Report(FailJson(<<"The websocket-client Python module is required">>,
                            None, None))
       ELSE /\ pc' = "start_operation"
            /\ UNCHANGED <<outcome, reports>>
    /\ UNCHANGED <<strip_vars, recv_timeouts, client, has_websocket,
                   ws, connects, posts, sent, received,
                   elapsed, session_id, session_ready, command_sent,
                   output_lines, exit_code, success, operation_id>>

\* start_operation: the HTTP POST and the operation id of its response
start_operation ==
    /\ client = "stack"
    /\ pc = "start_operation"
    /\ posts' = posts + 1
    /\ \/ \E code \in {"500"} :
            \* urlopen raises HTTPError
            /\ Report([FailJson(<<"Failed to start operation: HTTP ", code>>,
                                None, None)
                        EXCEPT !.details = Some("error body")])
            /\ UNCHANGED operation_id
       \/ \E e \in OsErrorTexts :
            \* urlopen raises URLError
            /\ Report(FailJson(<<"Failed to connect to Berth server: ", e>>,
                               None, None))
            /\ UNCHANGED operation_id
       \/ \* the response body is no JSON: json.loads raises
          /\ Report(FailJson(<<"Unexpected error starting operation: ",
                               JSON_ERROR>>, None, None))
          /\ UNCHANGED operation_id
       \/ \E id \in OperationIds :
            /\ operation_id' = id
            /\ IF ~HasOperationId(id)
               THEN Report(FailJson(<<"No operation ID returned from server">>,
                                    None, None))
               ELSE /\ pc' = "connect"
                    /\ UNCHANGED <<outcome, reports>>
    /\ UNCHANGED <<strip_vars, recv_timeouts, client, has_websocket,
                   ws, connects, sent, received,
                   elapsed, session_id, session_ready, command_sent,
                   output_lines, exit_code, success>>

\* the outer "except Exception" of stream_operation: no close, no output
StackOuterExcept(e) ==
    /\ Report(FailJson(<<"Failed to connect to WebSocket: ", e>>,
                       Some(operation_id), None))
    /\ UNCHANGED ws

\* the inner "except websocket.WebSocketException"
StackWsExcept(e) ==
    /\ ws' = "closed"
    /\ Report(FailJson(<<"WebSocket error: ", e>>, Some(operation_id),
                       Some(output_lines)))

\* variant: a failed create_connection is attempted once more
StackConnect_Retry ==
    /\ client = "stack"
    /\ pc = "connect"
    /\ \/ \E e \in OsErrorTexts :
            /\ connects' = connects + 2
            /\ StackOuterExcept(e)
            /\ UNCHANGED elapsed
       \/ /\ connects' = connects + 1
          /\ ws' = "open"
          /\ elapsed' = 0
          /\ pc' = "loop"
          /\ UNCHANGED <<outcome, reports>>
    /\ UNCHANGED <<strip_vars, recv_timeouts, client, has_websocket,
                   posts, sent, received, session_id,
                   session_ready, command_sent, output_lines, exit_code,
                   success, operation_id>>

\* stream_operation up to the loop: create_connection
StackConnect ==
    /\ client = "stack"
    /\ pc = "connect"
    /\ connects' = connects + 1
    /\ \/ \E e \in OsErrorTexts :
            /\ StackOuterExcept(e)
            /\ UNCHANGED elapsed
       \/ /\ ws' = "open"
          /\ elapsed' = 0
          /\ pc' = "loop"
          /\ UNCHANGED <<outcome, reports>>
    /\ UNCHANGED <<strip_vars, recv_timeouts, client, has_websocket,
                   posts, sent, received, session_id,
                   session_ready, command_sent, output_lines, exit_code,
                   success, operation_id>>

\* the timeout check under an outer handler that also catches the exit
\* fail_json raises (a bare "except:"), so that fail_json is called again
StackLoopCheck_BareExcept ==
    /\ client = "stack"
    /\ pc = "loop"
    /\ IF elapsed > Timeout
       THEN /\ ws' = "closed"
            /\ outcome' = FailJson(<<"Failed to connect to WebSocket: ", "">>,
                                   Some(operation_id), None)
            /\ reports' = reports + 2
            /\ pc' = "done"
       ELSE /\ pc' = "recv"
            /\ UNCHANGED <<ws, outcome, reports>>
    /\ UNCHANGED <<strip_vars, recv_timeouts, client, has_websocket,
                   connects, posts, sent, received,
                   elapsed, session_id, session_ready, command_sent,
                   output_lines, exit_code, success, operation_id>>

\* top of the while loop: the overall timeout check
StackLoopCheck ==
    /\ client = "stack"
    /\ pc = "loop"
    /\ IF elapsed > Timeout
       THEN /\ ws' = "closed"
            /\ Report(FailJson(<<"Operation timed out after ",
                                 ToString(Timeout), " seconds">>,
                               Some(operation_id), Some(output_lines)))
       ELSE /\ pc' = "recv"
            /\ UNCHANGED <<ws, outcome, reports>>
    /\ UNCHANGED <<strip_vars, recv_timeouts, client, has_websocket,
                   connects, posts, sent, received,
                   elapsed, session_id, session_ready, command_sent,
                   output_lines, exit_code, success, operation_id>>

\* variant: after a transport timeout the receive is retried at once,
\* without the deadline check
StackRecvTimeout_Retry ==
    /\ client = "stack"
    /\ pc = "recv"
    /\ recv_timeouts = 0
    /\ \E d \in TimeoutDelays : elapsed' = Advance(d)
    /\ recv_timeouts' = recv_timeouts + 1
    /\ pc' = "recv"
    /\ UNCHANGED <<strip_vars, client, has_websocket,
                   ws, connects, posts, sent, received,
                   session_id, session_ready, command_sent, output_lines,
                   exit_code, success, operation_id, outcome, reports>>

\* ws.recv() raises WebSocketTimeoutException: continue
StackRecvTimeout ==
    /\ client = "stack"
    /\ pc = "recv"
    /\ \E d \in TimeoutDelays : elapsed' = Advance(d)
    /\ recv_timeouts' = recv_timeouts + 1
    /\ pc' = "loop"
    /\ UNCHANGED <<strip_vars, client, has_websocket,
                   ws, connects, posts, sent, received,
                   session_id, session_ready, command_sent, output_lines,
                   exit_code, success, operation_id, outcome, reports>>

\* ws.recv() raises another WebSocketException
StackRecvWsException ==
    /\ client = "stack"
    /\ pc = "recv"
    /\ \E d \in Delays, e \in WsErrorTexts :
         /\ elapsed' = Advance(d)
         /\ StackWsExcept(e)
    /\ UNCHANGED <<strip_vars, recv_timeouts, client, has_websocket,
                   connects, posts, sent, received,
                   session_id, session_ready, command_sent, output_lines,
                   exit_code, success, operation_id>>

\* ws.recv() raises an exception that is no WebSocketException
StackRecvException ==
    /\ client = "stack"
    /\ pc = "recv"
    /\ \E d \in Delays, e \in OsErrorTexts :
         /\ elapsed' = Advance(d)
         /\ StackOuterExcept(e)
    /\ UNCHANGED <<strip_vars, recv_timeouts, client, has_websocket,
                   connects, posts, sent, received,
                   session_id, session_ready, command_sent, output_lines,
                   exit_code, success, operation_id>>

\* "if not message: continue"
StackHandleEmpty ==
    /\ client = "stack"
    /\ \E d \in Delays : RecvUnlogged(d)
    /\ pc' = "loop"
    /\ UNCHANGED <<strip_vars, recv_timeouts, client, has_websocket,
                   ws, connects, posts, sent,
                   session_id, session_ready, command_sent, output_lines,
                   exit_code, success, operation_id, outcome, reports>>

\* json.loads(message) raises
StackHandleMalformed ==
    /\ client = "stack"
    /\ \E d \in Delays : RecvUnlogged(d)
    /\ StackOuterExcept(JSON_ERROR)
    /\ UNCHANGED <<strip_vars, recv_timeouts, client, has_websocket,
                   connects, posts, sent,
                   session_id, session_ready, command_sent, output_lines,
                   exit_code, success, operation_id>>

\* variant: a data message replaces the captured lines
StackHandleData_Overwrite ==
    /\ client = "stack"
    /\ Len(received) < MaxRecv
    /\ \E m \in StackDataFrames, d \in Delays :
         /\ Recv(m, d)
         /\ LET data == Get(m.data, "data", <<>>)
            IN  output_lines' =
                  IF data = <<>> THEN output_lines
                  ELSE IF m.data.type \in {"stdout", "stderr"}
                       THEN <<rstrip_newline(data)>>
                       ELSE <<progress_line(Get(m.data, "timestamp", <<>>),
                                            data)>>
    /\ pc' = "loop"
    /\ UNCHANGED <<strip_vars, recv_timeouts, client, has_websocket,
                   ws, connects, posts, sent,
                   session_id, session_ready, command_sent, exit_code,
                   success, operation_id, outcome, reports>>

\* msg_type in ['stdout', 'stderr'] and msg_type == 'progress'
StackHandleData ==
    /\ client = "stack"
    /\ Len(received) < MaxRecv
    /\ \E m \in StackDataFrames, d \in Delays :
         /\ Recv(m, d)
         /\ LET data == Get(m.data, "data", <<>>)
            IN  output_lines' =
                  IF data = <<>> THEN output_lines
                  ELSE IF m.data.type \in {"stdout", "stderr"}
                       THEN Append(output_lines, rstrip_newline(data))
                       ELSE Append(output_lines,
                                   progress_line(Get(m.data, "timestamp", <<>>),
                                                 data))
    /\ pc' = "loop"
    /\ UNCHANGED <<strip_vars, recv_timeouts, client, has_websocket,
                   ws, connects, posts, sent,
                   session_id, session_ready, command_sent, exit_code,
                   success, operation_id, outcome, reports>>

\* msg_type == 'complete': record success and exit code, close, return
StackHandleComplete ==
    /\ client = "stack"
    /\ Len(received) <= MaxRecv
    /\ \E m \in StackCompleteFrames, d \in Delays :
         /\ Recv(m, d)
         /\ success' = Some(Get(m.data, "success", FALSE))
         /\ exit_code' = Some(Get(m.data, "exitCode",
                                  IF ~Val(success') THEN 1 ELSE 0))
    /\ ws' = "closed"
    /\ pc' = "returned"
    /\ UNCHANGED <<strip_vars, recv_timeouts, client, has_websocket,
                   connects, posts, sent, session_id,
                   session_ready, command_sent, output_lines, operation_id,
                   outcome, reports>>

\* msg_type == 'error': close and fail with the output captured so far
StackHandleError ==
    /\ client = "stack"
    /\ Len(received) <= MaxRecv
    /\ \E m \in StackErrorFrames, d \in Delays :
         /\ Recv(m, d)
         /\ Report(FailJson(<<"Operation error: ",
                              Get(m.data, "data", UNKNOWN_ERROR)>>,
                            Some(operation_id), Some(output_lines)))
    /\ ws' = "closed"
    /\ UNCHANGED <<strip_vars, recv_timeouts, client, has_websocket,
                   connects, posts, sent, session_id,
                   session_ready, command_sent, output_lines, exit_code,
                   success, operation_id>>

\* a JSON object of any other type: no branch is taken
StackHandleOther ==
    /\ client = "stack"
    /\ \E m \in OtherFrames, d \in Delays :
         /\ Get(m.data, "type", "") \notin StackTypes
         /\ RecvUnlogged(d)
    /\ pc' = "loop"
    /\ UNCHANGED <<strip_vars, recv_timeouts, client, has_websocket,
                   ws, connects, posts, sent,
                   session_id, session_ready, command_sent, output_lines,
                   exit_code, success, operation_id, outcome, reports>>

\* failed computed as "self.success is None"
NotSuccess_OnlyNone == IsNone(success)

\* "not self.success"
NotSuccess == IsNone(success) \/ ~Val(success)

\* f" on services {', '.join(self.services)}" if self.services else ""
services_str ==
    IF SERVICES = <<>> THEN <<>>
    ELSE <<" on services ">> \o
         [i \in 1..(2 * Len(SERVICES) - 1) |->
             IF i % 2 = 1 THEN SERVICES[(i + 1) \div 2] ELSE ", "]

\* the dictionary execute() returns
StackResult ==
    [changed |-> TRUE,
     operation_id |-> operation_id,
     message |-> (IF NotSuccess
                  THEN <<"Failed ", OPERATION, " operation on stack ",
                         STACK_NAME>>
                  ELSE <<"Successfully completed ", OPERATION,
                         " operation on stack ", STACK_NAME>>) \o services_str,
     exit_code |-> exit_code,
     output |-> output_lines,
     failed |-> NotSuccess]

\* execute() after stream_operation returned, and the end of main:
\* fail_json(**result) if result['failed'] else exit_json(**result)
StackReturn ==
    /\ client = "stack"
    /\ pc = "returned"
    /\ Report([call |-> IF StackResult.failed THEN "fail_json" ELSE "exit_json",
               msg |-> None,
               output |-> Some(StackResult.output),
               exit_code |-> StackResult.exit_code,
               failed |-> Some(StackResult.failed),
               changed |-> Some(StackResult.changed),
               stdout |-> None,
               operation_id |-> Some(StackResult.operation_id),
               message |-> Some(StackResult.message),
               details |-> None])
    /\ UNCHANGED <<strip_vars, recv_timeouts, client, has_websocket,
                   ws, connects, posts, sent, received,
                   elapsed, session_id, session_ready, command_sent,
                   output_lines, exit_code, success, operation_id>>

StackNext ==
    \/ StackMain
    \/ start_operation
    \/ StackConnect
    \/ StackLoopCheck
    \/ StackRecvTimeout
    \/ StackHandleEmpty
    \/ StackHandleMalformed
    \/ StackRecvWsException
    \/ StackRecvException
    \/ StackHandleData
    \/ StackHandleComplete
    \/ StackHandleError
    \/ StackHandleOther
    \/ StackReturn

Next == ExecNext \/ StackNext

Spec == Init /\ [][Next]_vars


\* every step of the program changes pc: the program keeps running, and
\* while the client is receiving, receives that take wall-clock time keep
\* happening
FairSpec == Spec /\ WF_pc(Next) /\ SF_elapsed(Next)


\* ==================================================== strip_ansi_codes
\* longest text strip_ansi_codes is applied to
MaxText == 6

\* the characters of the texts: ESC, '[', ']', BEL, the digit '0', the
\* letter 'm'
StripChars == {ESC, 91, 93, BEL, 48, 109}

StripTexts == UNION {[1..n -> StripChars] : n \in 0..MaxText}

\* everything but the state of the strip_ansi_codes calls
session_vars ==
    <<client, has_websocket, pc, ws, connects, posts, sent, received,
      elapsed, session_id, session_ready, command_sent, output_lines,
      exit_code, success, operation_id, outcome, reports, recv_timeouts>>

\* an operator object on which only strip_ansi_codes is called
StripInit ==
    /\ client = "exec"
    /\ has_websocket = TRUE
    /\ pc = "strip"
    /\ ws = "none"
    /\ connects = 0
    /\ posts = 0
    /\ sent = <<>>
    /\ received = <<>>
    /\ elapsed = 0
    /\ session_id = None
    /\ session_ready = FALSE
    /\ command_sent = FALSE
    /\ output_lines = <<>>
    /\ exit_code = None
    /\ success = None
    /\ operation_id = None
    /\ outcome = NoOutcome
    /\ reports = 0
    /\ recv_timeouts = 0
    /\ strip_arg \in StripTexts
    /\ stripped = None
    /\ restripped = None

\* strip_ansi_codes(text)
StripFirst ==
    /\ pc = "strip"
    /\ IsNone(stripped)
    /\ stripped' = Some(strip_ansi_codes(strip_arg))
    /\ UNCHANGED <<session_vars, strip_arg, restripped>>

\* strip_ansi_codes applied to its own result
StripSecond ==
    /\ pc = "strip"
    /\ ~IsNone(stripped)
    /\ IsNone(restripped)
    /\ restripped' = Some(strip_ansi_codes(Val(stripped)))
    /\ UNCHANGED <<session_vars, strip_arg, stripped>>

StripNext == StripFirst \/ StripSecond

StripSpec == StripInit /\ [][StripNext]_vars


\* ================================================================ claims

Last(seq) == seq[Len(seq)]

MsgType(m) == Get(m.data, "type", "")

\* the session ended on a message of type t
EndedOn(t) == received # <<>> /\ MsgType(Last(received)) = t

\* ---- C1
\* a cleaned output the exec client keeps once the command has been sent
KeptAfterCommand(cleaned) ==
    /\ cleaned # <<>>
    /\ ~Contains(COMMAND, cleaned)
    /\ ~StartsWith(cleaned, PROMPT)
    /\ ~StartsWith(cleaned, EXIT_TEXT)

\* the kept cleaned outputs, in order, of the terminal_output messages of
\* log that follow the first success message
RECURSIVE KeptOutputs(_, _)
KeptOutputs(log, ready) ==
    IF log = <<>> THEN <<>>
    ELSE LET m == Head(log)
             payload == Get(m.data, "output", <<>>)
         IN  IF MsgType(m) = "success" THEN KeptOutputs(Tail(log), TRUE)
             ELSE IF /\ MsgType(m) = "terminal_output"
                     /\ ready
                     /\ payload # <<>>
                     /\ B64Valid(payload)
                     /\ KeptAfterCommand(Cleaned(payload))
                  THEN <<Cleaned(payload)>> \o KeptOutputs(Tail(log), ready)
                  ELSE KeptOutputs(Tail(log), ready)

\* success -> prompt echo -> command echo -> real output -> terminal_close{0}
EchoScenario ==
    << Json([type |-> "success", session_id |-> SESSION_ID]),
       Json([type |-> "terminal_output", output |-> P_PROMPT]),
       Json([type |-> "terminal_output", output |-> P_ECHO]),
       Json([type |-> "terminal_output", output |-> P_REAL]),
       Json([type |-> "terminal_close", exit_code |-> 0]) >>

\* C1: in the exec client the captured output is always exactly the kept
\* cleaned outputs (non-empty, without the command text, not starting with
\* the prompt or with 'exit') of the terminal_output messages received after
\* the success message, in order; and the session success -> prompt echo ->
\* command echo -> real output -> terminal_close{exit_code:0} reports only
\* the real output with failed=false.
C1_CapturedIsFilteredOutput ==
    client = "exec" =>
        /\ output_lines = KeptOutputs(received, FALSE)
        /\ (pc = "done" /\ received = EchoScenario) =>
              /\ outcome.call = "exit_json"
              /\ outcome.output = Some(<<REAL_TEXT>>)
              /\ outcome.failed = Some(FALSE)

C1_Witness ==
    /\ client = "exec"
    /\ pc = "done"
    /\ received = EchoScenario
    /\ outcome.output = Some(<<REAL_TEXT>>)

\* ---- C2
\* C2: when the exec session ended on terminal_close, the reported exit_code
\* is the one the message carries (0 if it carries none) and failed is true
\* exactly when that exit code is nonzero.
C2_ExitCodeFromTerminalClose ==
    (client = "exec" /\ pc = "done" /\ EndedOn("terminal_close")) =>
        LET code == Get(Last(received).data, "exit_code", 0)
        IN  /\ outcome.exit_code = Some(code)
            /\ outcome.failed = Some(code # 0)
            /\ outcome.output = Some(output_lines)

C2_Witness ==
    /\ client = "exec"
    /\ pc = "done"
    /\ EndedOn("terminal_close")
    /\ Get(Last(received).data, "exit_code", 0) = 2
    /\ outcome.failed = Some(TRUE)
    /\ outcome.exit_code = Some(2)

\* ---- C3
\* C3: the stack client attempts a WebSocket connection only after the POST
\* returned a non-empty operation id; an invocation that ended in phase 1
\* (no operation id, HTTP error, transport error) failed without any
\* connection attempt.
C3_NoConnectWithoutOperationId ==
    client = "stack" =>
        /\ connects > 0 =>
              /\ posts = 1
              /\ ~IsNone(operation_id)
              /\ Val(operation_id) # ""
        /\ (pc \in {"connect", "loop", "recv", "returned"}) =>
              (~IsNone(operation_id) /\ Val(operation_id) # "")
        /\ (pc = "done" /\ posts = 1
                /\ (IsNone(operation_id) \/ Val(operation_id) = "")) =>
              /\ outcome.call = "fail_json"
              /\ connects = 0
              /\ ws = "none"

C3_Witness ==
    /\ client = "stack"
    /\ pc = "done"
    /\ posts = 1
    /\ operation_id = Some("")
    /\ connects = 0
    /\ outcome.msg = Some(<<"No operation ID returned from server">>)

\* ---- C4
\* the lines the stack client captures from a log of messages
RECURSIVE StackLines(_)
StackLines(log) ==
    IF log = <<>> THEN <<>>
    ELSE LET m == Head(log)
             data == Get(m.data, "data", <<>>)
         IN  IF MsgType(m) \in {"stdout", "stderr"} /\ data # <<>>
             THEN <<rstrip_newline(data)>> \o StackLines(Tail(log))
             ELSE IF MsgType(m) = "progress" /\ data # <<>>
             THEN <<<<91>> \o Get(m.data, "timestamp", <<>>) \o <<93, 32>>
                       \o data>> \o StackLines(Tail(log))
             ELSE StackLines(Tail(log))

\* stdout{a}, progress{b, ts=T}, complete{success:true}
StreamScenario ==
    << Json([type |-> "stdout", data |-> DATA_A]),
       Json([type |-> "progress", data |-> DATA_B, timestamp |-> TS_T]),
       Json([type |-> "complete", success |-> TRUE]) >>

\* C4: a stack session that ended on complete reports as output exactly, in
\* arrival order, the payload (trailing newlines stripped) of each
\* stdout/stderr message with data and '[timestamp] data' of each progress
\* message with data; stdout{a}, progress{b,T}, complete{success:true}
\* gives output = <<"a", "[T] b">>, failed = false, exit_code = 0.
C4_StackOutputInArrivalOrder ==
    (client = "stack" /\ pc = "done" /\ EndedOn("complete")) =>
        /\ outcome.output = Some(StackLines(SubSeq(received, 1,
                                                   Len(received) - 1)))
        /\ received = StreamScenario =>
              /\ outcome.output = Some(<< <<97>>, <<91, 84, 93, 32, 98>> >>)
              /\ outcome.failed = Some(FALSE)
              /\ outcome.exit_code = Some(0)
              /\ outcome.call = "exit_json"

C4_Witness ==
    /\ client = "stack"
    /\ pc = "done"
    /\ received = StreamScenario
    /\ outcome.output = Some(<< <<97>>, <<91, 84, 93, 32, 98>> >>)


\* ---- C5
\* the step receives an error message
ErrorStep == received' # received /\ MsgType(Last(received')) = "error"

\* the error text of an error message, per client
ErrorText(m) ==
    IF client = "exec" THEN Get(m.data, "error", "Unknown error")
    ELSE Get(m.data, "data", UNKNOWN_ERROR)

\* C5: in both clients the step that receives an error message, wherever in
\* the loop it comes, ends the session in a fail_json call whose msg holds
\* the error text and whose output is exactly the output captured before
\* the step; it sends nothing, and no step follows the end of a session.
C5_ErrorTerminatesSession ==
    [][ /\ ErrorStep =>
             /\ pc' = "done"
             /\ ws' = "closed"
             /\ sent' = sent
             /\ output_lines' = output_lines
             /\ outcome'.call = "fail_json"
             /\ Len(Val(outcome'.msg)) >= 2
             /\ Val(outcome'.msg)[2] = ErrorText(Last(received'))
             /\ outcome'.output = Some(output_lines)
        /\ pc = "done" => (received' = received /\ sent' = sent)
      ]_vars

C5_Witness ==
    /\ client = "exec"
    /\ pc = "done"
    /\ EndedOn("error")
    /\ "error" \in DOMAIN Last(received).data
    /\ output_lines # <<>>
    /\ outcome.output = Some(output_lines)

\* ---- C6
TimeoutMsg ==
    <<"Command execution timed out after ", ToString(Timeout), " seconds">>

\* the exec session was ended by an exception handler
EndedOnException ==
    /\ ~IsNone(outcome.msg)
    /\ Val(outcome.msg)[1] \in {"WebSocket error: ",
                                "Failed to connect to terminal WebSocket: "}

NoCloseOrError == ~EndedOn("terminal_close") /\ ~EndedOn("error")

\* the exec invocation failed with the timeout message and the captured output
TimedOutWithOutput ==
    /\ outcome.call = "fail_json"
    /\ outcome.msg = Some(TimeoutMsg)
    /\ outcome.output = Some(output_lines)

\* C6 as stated, for sessions no exception ended: if no terminal_close and
\* no error arrived before the timeout elapsed (none at all, or the one
\* that arrived was received with more than the timeout elapsed), the
\* invocation failed with the timeout message and the captured output.
C6_Original ==
    ( /\ client = "exec"
      /\ pc = "done"
      /\ sent # <<>>
      /\ ~EndedOnException
      /\ (NoCloseOrError \/ elapsed > Timeout) ) => TimedOutWithOutput

\* C6 amended: an exec session in which no terminal_close and no error
\* message was received, and which no exception ended, ends at a deadline
\* check that finds more than the timeout elapsed, in a failure with the
\* timeout message that carries exactly the output captured up to that check.
C6_TimeoutWhenNothingEndsSession ==
    ( /\ client = "exec"
      /\ pc = "done"
      /\ sent # <<>>
      /\ ~EndedOnException
      /\ NoCloseOrError ) => (TimedOutWithOutput /\ elapsed > Timeout)

C6_Witness ==
    /\ client = "exec"
    /\ pc = "done"
    /\ NoCloseOrError
    /\ outcome.msg = Some(TimeoutMsg)
    /\ output_lines # <<>>
    /\ outcome.output = Some(output_lines)

\* ---- C7
\* C7: a stack session that ended on complete reports failed = not success
\* (a missing flag counts as not successful) and as exit_code the message's
\* exitCode, or without one 1 if not successful and 0 if successful.
C7_CompleteSetsFailedAndExitCode ==
    (client = "stack" /\ pc = "done" /\ EndedOn("complete")) =>
        LET m == Last(received).data
            succ == Get(m, "success", FALSE)
        IN  /\ outcome.failed = Some(~succ)
            /\ outcome.exit_code =
                   Some(Get(m, "exitCode", IF succ THEN 0 ELSE 1))
            /\ outcome.call = IF succ THEN "exit_json" ELSE "fail_json"

C7_Witness ==
    /\ client = "stack"
    /\ pc = "done"
    /\ EndedOn("complete")
    /\ DOMAIN Last(received).data = {"type"}
    /\ outcome.failed = Some(TRUE)
    /\ outcome.exit_code = Some(1)

\* ---- C8
\* C8: in both clients a WebSocket that was opened is closed when the
\* outcome is reported, on every exit path.
C8_ClosedOnEveryExit == pc = "done" => ws # "open"

\* ---- C9
\* C9: in both clients every failure reported after output has been
\* captured carries the output captured so far.
C9_FailureCarriesOutput ==
    (pc = "done" /\ outcome.call = "fail_json" /\ output_lines # <<>>) =>
        outcome.output = Some(output_lines)

\* ---- C10
\* C10: in both clients every step starts with no outcome reported, the
\* step that ends the invocation makes exactly one exit_json or fail_json
\* call, and no step (send, receive, handling) follows it.
C10_OutcomeReportedOnce ==
    [][ /\ pc # "done"
        /\ reports = 0
        /\ outcome.call = "none"
        /\ reports' = (IF pc' = "done" THEN 1 ELSE 0)
        /\ (pc' = "done") <=> (outcome'.call \in {"exit_json", "fail_json"})
      ]_vars

C10_Witness ==
    /\ pc = "done"
    /\ reports = 1
    /\ ws = "closed"
    /\ Len(received) >= 2
    /\ outcome.call = "exit_json"

\* ---- C11
\* the POST returned a non-empty operation id: the operation was submitted
Submitted == ~IsNone(operation_id) /\ Val(operation_id) # ""

\* C11: every result the stack client reports once an operation id was
\* obtained has changed = true, whether the operation succeeded or failed.
C11_ChangedOnceSubmitted ==
    (client = "stack" /\ pc = "done" /\ Submitted) =>
        outcome.changed = Some(TRUE)

\* ---- C12
\* the first part of the message of a timeout failure, in either client
TimeoutMsgHeads ==
    {"Command execution timed out after ", "Operation timed out after "}

\* this step reports the timeout failure
TimeoutFailureStep ==
    /\ outcome.call = "none"
    /\ outcome'.call = "fail_json"
    /\ ~IsNone(outcome'.msg)
    /\ Val(outcome'.msg)[1] \in TimeoutMsgHeads

C13_NoRetries ==
    [][ /\ connects' \in {connects, connects + 1}
        /\ posts' \in {posts, posts + 1}
        /\ connects' <= 1
        /\ posts' <= 1
        /\ (connects' # connects \/ posts' # posts) =>
              (outcome.call = "none" /\ pc # "done")
        /\ client = "exec" => posts' = 0
      ]_vars

C13_Witness ==
    /\ client = "stack"
    /\ pc = "done"
    /\ outcome.call = "fail_json"
    /\ posts = 1
    /\ connects = 1
    /\ ws = "none"

\* ---- C14
\* no match of ANSI_ESCAPE_REGEX begins anywhere in the text
NoMatch(t) == \A i \in 1..Len(t) : AnsiMatchEnd(t, i) = 0

\* every ESC of the text begins a match of ANSI_ESCAPE_REGEX
EveryEscBeginsMatch(t) ==
    \A i \in 1..Len(t) : t[i] = ESC => AnsiMatchEnd(t, i) > 0

\* C14 as stated: applying strip_ansi_codes to its own result returns that
\* result unchanged, for every text over ESC, '[', ']', BEL, digits, letters.
C14_Original ==
    ~IsNone(restripped) => Val(restripped) = Val(stripped)

\* C14: strip_ansi_codes returns a text that contains no CSI/OSC sequence
\* unchanged, and applying it to its own result returns that result
\* unchanged for every text in which each ESC begins a sequence.
C14_StripCleanIsNoOp ==
    /\ (~IsNone(stripped) /\ NoMatch(strip_arg)) =>
           Val(stripped) = strip_arg
    /\ (~IsNone(restripped) /\ EveryEscBeginsMatch(strip_arg)) =>
           Val(restripped) = Val(stripped)
    /\ (~IsNone(restripped) /\ NoMatch(Val(stripped))) =>
           Val(restripped) = Val(stripped)

C14_Witness ==
    /\ ~IsNone(restripped)
    /\ EveryEscBeginsMatch(strip_arg)
    /\ ~NoMatch(strip_arg)
    /\ Val(stripped) # <<>>
    /\ Val(stripped) # strip_arg
    /\ Val(restripped) = Val(stripped)

\* ---- C16
\* the i-th message sent is a terminal_input whose input is the given text
\* followed by a newline
IsInput(i, t) ==
    /\ sent[i].type = "terminal_input"
    /\ sent[i].input = t \o <<NEWLINE>>

\* number of terminal_input messages sent that carry the command
CommandsSent == Cardinality({i \in 1..Len(sent) : IsInput(i, COMMAND)})

\* number of success messages received
SuccessesReceived ==
    Cardinality({j \in 1..Len(received) : MsgType(received[j]) = "success"})

\* C16: the exec client sends terminal_start first and before any receive;
\* it sends no terminal_input before a success message has been received
\* (at most one command per success message received); and every
\* terminal_input carrying 'exit' directly follows the terminal_input
\* carrying the command.
C16_OutboundOrdering ==
    client = "exec" =>
        /\ sent # <<>> => sent[1] = start_msg
        /\ \A i \in 2..Len(sent) : sent[i].type = "terminal_input"
        /\ (pc \in {"loop", "recv", "returned"} \/ received # <<>>) =>
              sent # <<>>
        /\ CommandsSent <= SuccessesReceived
        /\ \A i \in 1..Len(sent) :
              IsInput(i, EXIT_TEXT) => (i > 2 /\ IsInput(i - 1, COMMAND))

C16_Witness ==
    /\ client = "exec"
    /\ pc = "done"
    /\ outcome.call = "exit_json"
    /\ sent = <<start_msg, input_msg(session_id), exit_msg(session_id)>>

\* ---- C17
\* the payload of the message received in this step
ReceivedPayload == Get(Last(received').data, "output", <<>>)

\* this step receives a terminal_output message with a payload that decodes
\* to a non-empty cleaned text, before the command has been sent
OutputBeforeCommand ==
    /\ client = "exec"
    /\ ~command_sent
    /\ Len(received') = Len(received) + 1
    /\ MsgType(Last(received')) = "terminal_output"
    /\ ReceivedPayload # <<>>
    /\ B64Valid(ReceivedPayload)
    /\ Cleaned(ReceivedPayload) # <<>>

\* C17: before the command has been sent, the exec client drops terminal
\* output that starts with the prompt '/app #' and appends every other
\* non-empty cleaned terminal_output to the captured output.
C17_PreCommandOutputKept ==
    [][ OutputBeforeCommand =>
            output_lines' =
                IF StartsWith(Cleaned(ReceivedPayload), PROMPT)
                THEN output_lines
                ELSE Append(output_lines, Cleaned(ReceivedPayload))
      ]_vars

\* ---- C18
\* the outcome is the timeout failure of either client
TimeoutFailure ==
    /\ outcome.call = "fail_json"
    /\ ~IsNone(outcome.msg)
    /\ Val(outcome.msg)[1] \in TimeoutMsgHeads

\* the outcome is a failure reported by one of the exception handlers
ExceptionFailure ==
    /\ outcome.call = "fail_json"
    /\ ~IsNone(outcome.msg)
    /\ Val(outcome.msg)[1] \in {"WebSocket error: ",
                                "Failed to connect to terminal WebSocket: ",
                                "Failed to connect to WebSocket: "}

\* C18 as stated, for sessions no exception ended: once more than the
\* timeout has elapsed since the loop started, the only outcome the
\* invocation reports is the timeout failure.
C18_Original ==
    (pc = "done" /\ elapsed > Timeout /\ ~ExceptionFailure) => TimeoutFailure

\* C18: in both clients the deadline is checked at the head of every loop
\* iteration: a check that finds more than the timeout elapsed closes the
\* connection and reports the timeout failure with the captured output, no
\* receive begins once more than the timeout has elapsed, and every message
\* handled was returned by a receive that began before that.
C18_DeadlineCheckedEachIteration ==
    [][ /\ (pc = "loop" /\ elapsed > Timeout) =>
              /\ TimeoutFailureStep
              /\ pc' = "done"
              /\ ws' = "closed"
              /\ outcome'.output = Some(output_lines)
              /\ UNCHANGED <<received, sent, output_lines, exit_code>>
        /\ pc = "recv" => elapsed <= Timeout
        /\ received' # received => (pc = "recv" /\ elapsed <= Timeout)
      ]_vars

C18_Witness ==
    /\ client = "stack"
    /\ pc = "done"
    /\ elapsed > Timeout
    /\ TimeoutFailure
    /\ ws = "closed"
    /\ recv_timeouts = 0
    /\ Len(received) >= 2
    /\ outcome.output = Some(output_lines)

\* ---- C19
\* C19: in both clients every invocation eventually ends with an outcome
\* reported, whatever the peer sends, provided the program keeps running
\* and wall-clock time advances.
C19_EventuallyTerminates == <>(pc = "done" /\ reports = 1)

C19_Witness ==
    /\ client = "exec"
    /\ pc = "done"
    /\ TimeoutFailure
    /\ received = <<>>
    /\ recv_timeouts = 0

\* ---- C20
\* this step reports an outcome that has an output field
ReportsOutput ==
    /\ outcome.call = "none"
    /\ outcome'.call # "none"
    /\ ~IsNone(outcome'.output)

\* C20: in both clients every step leaves the entries already captured in
\* place and in order, adding at most one entry at the end, and the output
\* field of an outcome (the final result, or a failure that carries output)
\* is the captured sequence as it is when the outcome is reported.
C20_OutputAppendOnly ==
    [][ /\ Len(output_lines') \in {Len(output_lines), Len(output_lines) + 1}
        /\ SubSeq(output_lines', 1, Len(output_lines)) = output_lines
        /\ ReportsOutput =>
              /\ Val(outcome'.output) = output_lines
              /\ output_lines' = output_lines
      ]_vars

C20_Witness ==
    /\ client = "stack"
    /\ pc = "done"
    /\ Len(output_lines) >= 3
    /\ outcome.call = "fail_json"
    /\ outcome.output = Some(output_lines)

\* ---- C21
\* C21: the exec client reports a non-failed result only if the user command
\* was sent to the peer during the session.
C21_SuccessOnlyAfterCommand ==
    ( /\ client = "exec"
      /\ pc = "done"
      /\ outcome.call = "exit_json"
      /\ outcome.failed = Some(FALSE) ) => CommandsSent >= 1

\* ---- C22
\* number of terminal_input messages sent that carry 'exit'
ExitsSent == Cardinality({i \in 1..Len(sent) : IsInput(i, EXIT_TEXT)})

\* C22: in any exec session, whatever the peer sends, the user command is
\* sent at most once and the 'exit' input is sent at most once.
C22_CommandAndExitSentOnce ==
    client = "exec" => (CommandsSent <= 1 /\ ExitsSent <= 1)

====
